---- MODULE Spec2Model ----
(***************************************************************************)
(* A model of the anteraja client: Client.request (request building, the   *)
(* timeout race, response classification) and the error taxonomy of        *)
(* errors.ts.                                                              *)
(*                                                                         *)
(* Texts whose content the code inspects are not TLA+ strings (which are   *)
(* atomic): a JSON text is the sequence of its lexemes; a URL, a query key *)
(* or a query value is the sequence of its pieces, a piece being one       *)
(* character where the code reads characters and a run of plain            *)
(* characters elsewhere.                                                   *)
(***************************************************************************)
EXTENDS Integers, Sequences, FiniteSets, TLC

(***************************************************************************)
(* JavaScript values.  Every value is a record of one shape:               *)
(*   t    the value's kind                                                 *)
(*   s    the payload of a string, number (its decimal text) or boolean    *)
(*   kids the own enumerable properties of an object or array, in order,   *)
(*        as <<key, value>> pairs                                          *)
(***************************************************************************)
JVal(t, s, kids) == [t |-> t, s |-> s, kids |-> kids]
Undefined == JVal("undefined", "", <<>>)
JNull == JVal("null", "null", <<>>)
JTrue == JVal("boolean", "true", <<>>)
JFalse == JVal("boolean", "false", <<>>)
JStr(s) == JVal("string", s, <<>>)
JNum(n) == JVal("number", ToString(n), <<>>)
JBigInt(n) == JVal("bigint", ToString(n), <<>>)
JObj(kids) == JVal("object", "", kids)
JArr(elems) == JVal("array", "", [i \in 1..Len(elems) |-> <<ToString(i - 1), elems[i]>>])

\* typeof v
TypeOf(v) ==
  IF v.t \in {"object", "array", "null"} THEN "object" ELSE v.t

\* isObject of utils: whether v is a key-value mapping
isObject(v) == v.t = "object"

\* Object.entries(v)
ObjectEntries(v) == v.kids

RECURSIVE LookupFrom(_, _, _)
LookupFrom(kids, key, i) ==
  IF i = 0 THEN Undefined
  ELSE IF kids[i][1] = key THEN kids[i][2]
  ELSE LookupFrom(kids, key, i - 1)

\* v[key] for an own property, undefined when there is none
GetProp(v, key) == LookupFrom(v.kids, key, Len(v.kids))

\* v[key] = val: replaces the property in place, or adds it last
SetProp(kids, key, val) ==
  IF \E i \in 1..Len(kids) : kids[i][1] = key
    THEN [i \in 1..Len(kids) |-> IF kids[i][1] = key THEN <<key, val>> ELSE kids[i]]
    ELSE Append(kids, <<key, val>>)

\* An error of the runtime or of a collaborator: not of the taxonomy.
NativeError(name, message) ==
  [proto |-> <<name, "Error">>, name |-> name, message |-> message]
JSONSyntaxError == NativeError("SyntaxError", "Unexpected token in JSON")
BigIntTypeError == NativeError("TypeError", "Do not know how to serialize a BigInt")
InvalidURLError == NativeError("TypeError", "Invalid URL")
MalformedURIError == NativeError("URIError", "URI malformed")

(***************************************************************************)
(* JSON texts: sequences of lexemes.                                       *)
(***************************************************************************)
Lex(k, v) == [k |-> k, v |-> v]
LBrace == Lex("punct", "{")
RBrace == Lex("punct", "}")
LBrack == Lex("punct", "[")
RBrack == Lex("punct", "]")
Colon == Lex("punct", ":")
Comma == Lex("punct", ",")
StrLex(s) == Lex("string", s)
NumLex(s) == Lex("number", s)
WordLex(w) == Lex("word", w)

Flatten(seqs) ==
  LET RECURSIVE F(_)
      F(i) == IF i = 0 THEN <<>> ELSE F(i - 1) \o seqs[i]
  IN F(Len(seqs))

\* JSON.stringify(v) for a value that serializes: its lexemes.
RECURSIVE Serialize(_)
Serialize(v) ==
  CASE v.t = "string" -> <<StrLex(v.s)>>
    [] v.t = "number" -> <<NumLex(v.s)>>
    [] v.t \in {"boolean", "null"} -> <<WordLex(v.s)>>
    [] v.t = "array" ->
         <<LBrack>>
         \o Flatten([i \in 1..Len(v.kids) |->
              (IF i > 1 THEN <<Comma>> ELSE <<>>) \o Serialize(v.kids[i][2])])
         \o <<RBrack>>
    [] v.t = "object" ->
         <<LBrace>>
         \o Flatten([i \in 1..Len(v.kids) |->
              (IF i > 1 THEN <<Comma>> ELSE <<>>)
              \o <<StrLex(v.kids[i][1]), Colon>> \o Serialize(v.kids[i][2])])
         \o <<RBrace>>

\* Whether JSON.stringify(v) throws: a BigInt anywhere in v.
RECURSIVE HasBigInt(_)
HasBigInt(v) ==
  \/ v.t = "bigint"
  \/ \E i \in 1..Len(v.kids) : HasBigInt(v.kids[i][2])

\* JSON.stringify(v): [ok, text] or [ok, error]
JSONstringify(v) ==
  IF HasBigInt(v) THEN [ok |-> FALSE, error |-> BigIntTypeError]
  ELSE [ok |-> TRUE, text |-> Serialize(v)]

(***************************************************************************)
(* JSON.parse: recursive descent over the lexemes.  A parse step returns   *)
(* [ok, val, next]: the value read and the index of the first lexeme after *)
(* it.                                                                     *)
(***************************************************************************)
ParseFail == [ok |-> FALSE, val |-> Undefined, next |-> 0]
ParseOk(v, n) == [ok |-> TRUE, val |-> v, next |-> n]

RECURSIVE ParseValue(_, _)
RECURSIVE ParseElements(_, _, _)
RECURSIVE ParseMembers(_, _, _)

\* The elements of an array after "[" or ",": toks[i] starts an element.
ParseElements(toks, i, acc) ==
  LET e == ParseValue(toks, i) IN
  IF ~e.ok \/ e.next > Len(toks) THEN ParseFail
  ELSE IF toks[e.next] = RBrack THEN ParseOk(JArr(Append(acc, e.val)), e.next + 1)
  ELSE IF toks[e.next] = Comma THEN ParseElements(toks, e.next + 1, Append(acc, e.val))
  ELSE ParseFail

\* The members of an object after "{" or ",": toks[i] starts a member.
ParseMembers(toks, i, kids) ==
  IF i + 1 > Len(toks) \/ toks[i].k # "string" \/ toks[i + 1] # Colon THEN ParseFail
  ELSE
    LET m == ParseValue(toks, i + 2) IN
    IF ~m.ok \/ m.next > Len(toks) THEN ParseFail
    ELSE
      LET kids2 == SetProp(kids, toks[i].v, m.val) IN
      IF toks[m.next] = RBrace THEN ParseOk(JObj(kids2), m.next + 1)
      ELSE IF toks[m.next] = Comma THEN ParseMembers(toks, m.next + 1, kids2)
      ELSE ParseFail

ParseValue(toks, i) ==
  IF i > Len(toks) THEN ParseFail
  ELSE
    LET tok == toks[i] IN
    CASE tok.k = "string" -> ParseOk(JStr(tok.v), i + 1)
      [] tok.k = "number" -> ParseOk(JVal("number", tok.v, <<>>), i + 1)
      [] tok.k = "word" ->
           IF tok.v \in {"true", "false"} THEN ParseOk(JVal("boolean", tok.v, <<>>), i + 1)
           ELSE IF tok.v = "null" THEN ParseOk(JNull, i + 1)
           ELSE ParseFail
      [] tok = LBrack ->
           IF i + 1 <= Len(toks) /\ toks[i + 1] = RBrack THEN ParseOk(JArr(<<>>), i + 2)
           ELSE ParseElements(toks, i + 1, <<>>)
      [] tok = LBrace ->
           IF i + 1 <= Len(toks) /\ toks[i + 1] = RBrace THEN ParseOk(JObj(<<>>), i + 2)
           ELSE ParseMembers(toks, i + 1, <<>>)
      [] OTHER -> ParseFail

\* JSON.parse(text): [ok, val] or [ok, error]; the whole text must be one value.
JSONparse(text) ==
  LET p == ParseValue(text, 1) IN
  IF p.ok /\ p.next = Len(text) + 1 THEN [ok |-> TRUE, val |-> p.val]
  ELSE [ok |-> FALSE, error |-> JSONSyntaxError]

(***************************************************************************)
(* errors.ts: the error taxonomy.                                          *)
(* An error object is a record; proto is its prototype chain, which        *)
(* instanceof reads.                                                       *)
(***************************************************************************)
APIErrorCode ==
  { "unauthorized", "restricted_resource", "object_not_found", "rate_limited",
    "invalid_json", "invalid_request_url", "invalid_request", "validation_error",
    "conflict_error", "internal_server_error", "service_unavailable" }

ClientErrorCode == { "request_timeout", "response_error" }

\* The own keys of the object literals the code tests codes against.
httpResponseErrorCodes == {"response_error"} \cup APIErrorCode
apiErrorCodes == APIErrorCode
unknownResponseErrorCodes == {"response_error"}

\* What every object literal inherits from Object.prototype.
ObjectPrototypeKeys ==
  { "constructor", "hasOwnProperty", "isPrototypeOf", "propertyIsEnumerable",
    "toLocaleString", "toString", "valueOf", "__proto__",
    "__defineGetter__", "__defineSetter__", "__lookupGetter__", "__lookupSetter__" }

\* key in obj, for an object literal with the own keys ownKeys: the in
\* operator reads the prototype chain too.
In(key, ownKeys) == key \in ownKeys \cup ObjectPrototypeKeys

\* error instanceof cls
InstanceOf(error, cls) == \E i \in 1..Len(error.proto) : error.proto[i] = cls

isClientError(error) == InstanceOf(error, "clientBaseError")

isClientErrorWithCode(error, codes) == isClientError(error) /\ In(error.code, codes)

\* new HTTPResponseError(args), as the subclass cls
HTTPResponseError(cls, args) ==
  [ proto |-> <<cls, "HTTPResponseError", "clientBaseError", "Error">>,
    name |-> cls,
    code |-> args.code,
    message |-> args.message,
    status |-> args.status,
    headers |-> args.headers,
    body |-> args.rawBodyText ]

isHTTPResponseError(error) == isClientErrorWithCode(error, httpResponseErrorCodes)

\* new UnknownHTTPResponseError(args); args.message is a string value or undefined
UnknownHTTPResponseError(args) ==
  HTTPResponseError("UnknownHTTPResponseError",
    [ code |-> "response_error",
      message |-> IF args.message.t \in {"undefined", "null"}
                    THEN "Request failed with status: " \o ToString(args.status)
                    ELSE args.message.s,
      status |-> args.status,
      headers |-> args.headers,
      rawBodyText |-> args.rawBodyText ])

isUnknownHTTPResponseError(error) ==
  isClientErrorWithCode(error, unknownResponseErrorCodes)

\* new APIResponseError(args)
APIResponseError(args) == HTTPResponseError("APIResponseError", args)

isAPIResponseError(error) == isClientErrorWithCode(error, apiErrorCodes)

isAPIErrorCode(code) == TypeOf(code) = "string" /\ In(code.s, apiErrorCodes)

NoMatch == [match |-> FALSE]

\* parseAPIErrorResponseBody(body): the {code, message} of the body, or no match
parseAPIErrorResponseBody(body) ==
  LET parsed == JSONparse(body) IN
  IF ~parsed.ok THEN NoMatch
  ELSE IF \/ ~isObject(parsed.val)
          \/ TypeOf(GetProp(parsed.val, "message")) # "string"
          \/ ~isAPIErrorCode(GetProp(parsed.val, "code"))
    THEN NoMatch
  ELSE [ match |-> TRUE,
         code |-> GetProp(parsed.val, "code").s,
         message |-> GetProp(parsed.val, "message").s ]

\* A buildRequestError that gives the error the response's status text
\* instead of the payload's message.
buildRequestErrorOwnMessage(response, bodyText) ==
  LET apiErrorResponseBody == parseAPIErrorResponseBody(bodyText) IN
  IF apiErrorResponseBody.match
    THEN APIResponseError(
           [ code |-> apiErrorResponseBody.code,
             message |-> "Request failed with status: " \o ToString(response.status),
             headers |-> response.headers,
             status |-> response.status,
             rawBodyText |-> bodyText ])
    ELSE UnknownHTTPResponseError(
           [ message |-> Undefined,
             headers |-> response.headers,
             status |-> response.status,
             rawBodyText |-> bodyText ])

\* buildRequestError(response, bodyText)
buildRequestError(response, bodyText) ==
  LET apiErrorResponseBody == parseAPIErrorResponseBody(bodyText) IN
  IF apiErrorResponseBody.match
    THEN APIResponseError(
           [ code |-> apiErrorResponseBody.code,
             message |-> apiErrorResponseBody.message,
             headers |-> response.headers,
             status |-> response.status,
             rawBodyText |-> bodyText ])
    ELSE UnknownHTTPResponseError(
           [ message |-> Undefined,
             headers |-> response.headers,
             status |-> response.status,
             rawBodyText |-> bodyText ])

\* new RequestTimeoutError()
RequestTimeoutError ==
  [ proto |-> <<"RequestTimeoutError", "clientBaseError", "Error">>,
    name |-> "RequestTimeoutError",
    code |-> "request_timeout",
    message |-> "Request has timed out" ]

(***************************************************************************)
(* URLs and query strings.                                                 *)
(***************************************************************************)
HexDigits ==
  {"0", "1", "2", "3", "4", "5", "6", "7", "8", "9", "A", "B", "C", "D", "E", "F"}

\* The first hex digit of a byte that is not ASCII: alone it is no UTF-8.
HighHexDigits == {"8", "9", "A", "B", "C", "D", "E", "F"}

\* <<h1, h2, c>>: the ASCII character c has the percent code %h1h2.
PercentCodes ==
  { <<"2", "0", " ">>, <<"2", "3", "#">>, <<"2", "5", "%">>, <<"2", "6", "&">>,
    <<"2", "B", "+">>, <<"2", "F", "/">>, <<"3", "D", "=">>, <<"3", "F", "?">> }

CodedChars == { t[3] : t \in PercentCodes }

\* The character of the byte %h1h2 (an ASCII byte).
CharOfCode(h1, h2) ==
  IF \E t \in PercentCodes : t[1] = h1 /\ t[2] = h2
    THEN (CHOOSE t \in PercentCodes : t[1] = h1 /\ t[2] = h2)[3]
    ELSE "\\x" \o h1 \o h2

\* The percent code of a character that has one.
CodeOfChar(c) ==
  LET t == CHOOSE u \in PercentCodes : u[3] = c IN <<"%", t[1], t[2]>>

IsPercentCode(s, i) ==
  /\ i + 2 <= Len(s)
  /\ s[i] = "%"
  /\ s[i + 1] \in HexDigits
  /\ s[i + 2] \in HexDigits

\* decodeURIComponent(s) from piece i on: [ok, text], or [ok, error] for a
\* "%" that starts no percent code or the code of no UTF-8 character.
RECURSIVE DecodeURIFrom(_, _)
DecodeURIFrom(s, i) ==
  IF i > Len(s) THEN [ok |-> TRUE, text |-> <<>>]
  ELSE IF s[i] # "%" THEN
    LET r == DecodeURIFrom(s, i + 1) IN
    IF r.ok THEN [ok |-> TRUE, text |-> <<s[i]>> \o r.text] ELSE r
  ELSE IF ~IsPercentCode(s, i) \/ s[i + 1] \in HighHexDigits
    THEN [ok |-> FALSE, error |-> MalformedURIError]
  ELSE
    LET r == DecodeURIFrom(s, i + 3) IN
    IF r.ok THEN [ok |-> TRUE, text |-> <<CharOfCode(s[i + 1], s[i + 2])>> \o r.text]
    ELSE r

decodeURIComponent(s) == DecodeURIFrom(s, 1)

\* The application/x-www-form-urlencoded serialization of one name or value.
RECURSIVE FormEncode(_)
FormEncode(s) ==
  IF s = <<>> THEN <<>>
  ELSE
    (IF Head(s) = " " THEN <<"+">>
     ELSE IF Head(s) \in CodedChars THEN CodeOfChar(Head(s))
     ELSE <<Head(s)>>)
    \o FormEncode(Tail(s))

\* The urlencoded serialization of a list of <<name, value>> pairs.
RECURSIVE FormSerialize(_)
FormSerialize(list) ==
  IF list = <<>> THEN <<>>
  ELSE
    FormEncode(list[1][1]) \o <<"=">> \o FormEncode(list[1][2])
    \o (IF Len(list) > 1 THEN <<"&">> ELSE <<>>)
    \o FormSerialize(Tail(list))

\* The urlencoded decoding of one name or value: "+" is a space, a percent
\* code is its character, and any other "%" stays.
RECURSIVE FormDecode(_, _)
FormDecode(s, i) ==
  IF i > Len(s) THEN <<>>
  ELSE IF s[i] = "+" THEN <<" ">> \o FormDecode(s, i + 1)
  ELSE IF IsPercentCode(s, i) /\ s[i + 1] \notin HighHexDigits
    THEN <<CharOfCode(s[i + 1], s[i + 2])>> \o FormDecode(s, i + 3)
  ELSE <<s[i]>> \o FormDecode(s, i + 1)

\* The index of the first piece of s equal to c, or 0.
IndexOf(s, c) ==
  IF \E i \in 1..Len(s) : s[i] = c
    THEN CHOOSE i \in 1..Len(s) : s[i] = c /\ \A j \in 1..(i - 1) : s[j] # c
    ELSE 0

\* The urlencoded parse of a query string: its list of <<name, value>> pairs.
RECURSIVE FormParse(_)
FormParse(s) ==
  IF s = <<>> THEN <<>>
  ELSE
    LET amp == IndexOf(s, "&")
        seg == IF amp = 0 THEN s ELSE SubSeq(s, 1, amp - 1)
        rest == IF amp = 0 THEN <<>> ELSE SubSeq(s, amp + 1, Len(s))
        eq == IndexOf(seg, "=")
        name == IF eq = 0 THEN seg ELSE SubSeq(seg, 1, eq - 1)
        value == IF eq = 0 THEN <<>> ELSE SubSeq(seg, eq + 1, Len(seg))
    IN (IF seg = <<>> THEN <<>>
        ELSE << <<FormDecode(name, 1), FormDecode(value, 1)>> >>)
       \o FormParse(rest)

Schemes == {"https:", "http:"}
URLDelimiters == {"/", "?", "#", "//", "&", "=", "%", "+", " "}

\* new URL(text): [ok, origin, pathname, search, hash], or [ok, error] when
\* the text is not an absolute URL.  search is the query without its "?".
NewURL(text) ==
  IF \/ Len(text) < 3
     \/ text[1] \notin Schemes
     \/ text[2] # "//"
     \/ text[3] \in URLDelimiters \cup Schemes
    THEN [ok |-> FALSE, error |-> InvalidURLError]
  ELSE
    LET rest == SubSeq(text, 4, Len(text))
        h == IndexOf(rest, "#")
        beforeHash == IF h = 0 THEN rest ELSE SubSeq(rest, 1, h - 1)
        q == IndexOf(beforeHash, "?")
        path == IF q = 0 THEN beforeHash ELSE SubSeq(beforeHash, 1, q - 1)
    IN [ ok |-> TRUE,
         origin |-> SubSeq(text, 1, 3),
         pathname |-> IF path = <<>> THEN <<"/">> ELSE path,
         search |-> IF q = 0 THEN <<>> ELSE SubSeq(beforeHash, q + 1, Len(beforeHash)),
         hash |-> IF h = 0 THEN <<>> ELSE SubSeq(rest, h, Len(rest)) ]

\* url.searchParams.append(name, value): the list of the query, one pair
\* longer, is serialized back into the URL.
SearchParamsAppend(url, name, value) ==
  [url EXCEPT !.search = FormSerialize(Append(FormParse(url.search), <<name, value>>))]

\* url.toString()
URLToString(url) ==
  url.origin \o url.pathname
  \o (IF url.search = <<>> THEN <<>> ELSE <<"?">> \o url.search)
  \o url.hash

\* url.searchParams of the URL a text names: its list of <<name, value>> pairs.
SearchParamsOf(text) == FormParse(NewURL(text).search)

(***************************************************************************)
(* The client: its configuration and the building of a request.           *)
(***************************************************************************)
DefaultTimeoutMs == 60000
PackageVersion == "0.0.1"

\* A field that was not given.
Absent == [t |-> "undefined"]

\* new Client(options): the configuration
Client(options) ==
  [ auth |-> options.auth,
    prefixUrl |-> IF options.baseUrl.t = "undefined" THEN <<>> ELSE options.baseUrl.text,
    timeoutMs |-> IF options.timeoutMs.t = "undefined" THEN DefaultTimeoutMs
                  ELSE options.timeoutMs.n,
    fetch |-> IF options.fetch.t = "undefined" THEN "nodeFetch" ELSE options.fetch.fn,
    agent |-> options.agent,
    userAgent |-> "anteraja-client/" \o PackageVersion ]

NoHeaders == [k \in {} |-> ""]

\* { ...obj, [key]: value } for a headers object
WithHeader(headers, key, value) ==
  [k \in DOMAIN headers \cup {key} |-> IF k = key THEN value ELSE headers[k]]

\* { ...auth }: spreading undefined gives no property
SpreadAuth(auth) == IF auth.t = "undefined" THEN NoHeaders ELSE auth.h

\* method.toUpperCase()
ToUpperCase(method) ==
  CASE method = "get" -> "GET"
    [] method = "post" -> "POST"
    [] method = "patch" -> "PATCH"
    [] method = "delete" -> "DELETE"

\* Object.entries(query): a URLSearchParams has no own enumerable property
QueryEntries(query) == IF query.t = "object" THEN query.entries ELSE <<>>

\* String(value) of a string or a number
StringOf(value) == IF value.t = "number" THEN <<ToString(value.n)>> ELSE value.text

\* value.forEach(val => url.searchParams.append(key, decodeURIComponent(val)))
\* from element i on: [ok, url], or [ok, error] at the first element whose
\* decoding throws.
RECURSIVE AppendElements(_, _, _, _)
AppendElements(url, key, elems, i) ==
  IF i > Len(elems) THEN [ok |-> TRUE, url |-> url]
  ELSE
    LET d == decodeURIComponent(elems[i]) IN
    IF ~d.ok THEN [ok |-> FALSE, error |-> d.error]
    ELSE AppendElements(SearchParamsAppend(url, key, d.text), key, elems, i + 1)

\* The loop over Object.entries(query), from entry i on.
RECURSIVE AppendQuery(_, _, _)
AppendQuery(url, entries, i) ==
  IF i > Len(entries) THEN [ok |-> TRUE, url |-> url]
  ELSE
    LET key == entries[i][1]
        value == entries[i][2]
    IN
    IF value.t = "undefined" THEN AppendQuery(url, entries, i + 1)
    ELSE IF value.t = "array" THEN
      LET r == AppendElements(url, key, value.elems, 1) IN
      IF r.ok THEN AppendQuery(r.url, entries, i + 1) ELSE r
    ELSE AppendQuery(SearchParamsAppend(url, key, StringOf(value)), entries, i + 1)

\* The body as a JSON string, or undefined: [ok, body] or [ok, error]
BodyAsJsonString(body) ==
  IF body.t \in {"undefined", "null"} \/ Len(ObjectEntries(body)) = 0
    THEN [ok |-> TRUE, body |-> Absent]
  ELSE
    LET j == JSONstringify(body) IN
    IF j.ok THEN [ok |-> TRUE, body |-> [t |-> "string", text |-> j.text]]
    ELSE [ok |-> FALSE, error |-> j.error]

\* Headers that declare a JSON body whether or not there is one.
RequestHeadersAlwaysJson(config, bodyAsJsonString) ==
  WithHeader(WithHeader(SpreadAuth(config.auth), "user-agent", config.userAgent),
             "content-type", "application/json")

\* Headers in which the auth material lies over the user agent.
RequestHeadersAuthOnTop(config, bodyAsJsonString) ==
  LET auth == SpreadAuth(config.auth)
      headers == [k \in DOMAIN auth \cup {"user-agent"} |->
                    IF k \in DOMAIN auth THEN auth[k] ELSE config.userAgent]
  IN IF bodyAsJsonString.t # "undefined"
       THEN WithHeader(headers, "content-type", "application/json")
       ELSE headers

\* The headers of a request: the auth material, the user agent, and the
\* content type of a body.
RequestHeaders(config, bodyAsJsonString) ==
  LET headers == WithHeader(SpreadAuth(config.auth), "user-agent", config.userAgent) IN
  IF bodyAsJsonString.t # "undefined"
    THEN WithHeader(headers, "content-type", "application/json")
    ELSE headers

\* Client.request up to the transport's invocation: [ok, url, init], the
\* arguments the transport is invoked with, or [ok, error], what was thrown.
BuildRequest(config, d) ==
  LET b == BodyAsJsonString(d.body) IN
  IF ~b.ok THEN [ok |-> FALSE, error |-> b.error]
  ELSE
    LET url == NewURL(config.prefixUrl \o d.path) IN
    IF ~url.ok THEN [ok |-> FALSE, error |-> url.error]
    ELSE
      LET q == IF d.query.t = "undefined" THEN [ok |-> TRUE, url |-> url]
               ELSE AppendQuery(url, QueryEntries(d.query), 1)
      IN
      IF ~q.ok THEN [ok |-> FALSE, error |-> q.error]
      ELSE [ ok |-> TRUE,
             url |-> URLToString(q.url),
             init |-> [ method |-> ToUpperCase(d.method),
                        headers |-> RequestHeaders(config, b.body),
                        body |-> b.body,
                        agent |-> config.agent ] ]

(***************************************************************************)
(* The inputs the model draws from.                                        *)
(***************************************************************************)
MaxArrayLen == 2
MaxBodyKeys == 2

SeqsUpTo(S, n) == UNION { [1..k -> S] : k \in 0..n }

ExampleBaseUrl == <<"https:", "//", "api.example.com">>

AuthValues ==
  { Absent,
    [t |-> "object", h |-> [k \in {"access-key-id", "secret-access-key"} |-> "secret"]],
    [t |-> "object", h |-> [k \in {"access-key-id", "user-agent"} |-> "custom"]],
    [t |-> "object", h |-> [k \in {"access-key-id", "content-type"} |-> "text/plain"]] }

BaseUrlValues ==
  { Absent,
    [t |-> "string", text |-> ExampleBaseUrl],
    [t |-> "string", text |-> <<"your-base-url">>] }

NoOptions ==
  [auth |-> Absent, timeoutMs |-> Absent, baseUrl |-> Absent, fetch |-> Absent,
   agent |-> Absent]

FullOptions ==
  [ auth |-> [t |-> "object",
              h |-> [k \in {"access-key-id", "secret-access-key"} |-> "secret"]],
    timeoutMs |-> [t |-> "number", n |-> 5000],
    baseUrl |-> [t |-> "string", text |-> ExampleBaseUrl],
    fetch |-> [t |-> "function", fn |-> "customFetch"],
    agent |-> [t |-> "object", id |-> "keepAliveAgent"] ]

\* The options of the clients whose requests are built.
BuildOptions ==
  { [NoOptions EXCEPT !.auth = a, !.baseUrl = b] : a \in AuthValues, b \in BaseUrlValues }
  \cup {FullOptions}

\* The options of the clients whose calls are followed to their end.
CallOptions == { NoOptions, FullOptions }

Methods == {"get", "post", "patch", "delete"}

Paths ==
  { <<"/", "serviceRates">>,
    <<"/", "serviceRates", "?", "page", "=", "2">>,
    <<"https:", "//", "other.example.com", "/", "v1">> }

\* The elements of array query values: plain, percent-encoded, and one
\* that is no percent-encoding.
QueryElements ==
  { <<"a">>, <<"b", "%", "2", "6", "c", " ", "d">>, <<"1", "0", "0", "%">> }

QString(text) == [t |-> "string", text |-> text]
QNumber(n) == [t |-> "number", n |-> n]
QArray(elems) == [t |-> "array", elems |-> elems]

Queries ==
  { Absent,
    [t |-> "object", entries |-> <<>>],
    [t |-> "URLSearchParams",
     list |-> << << <<"ids">>, <<"a">> >>, << <<"ids">>, <<"b">> >> >>] }
  \cup { [t |-> "object",
          entries |-> << << <<"q">>, QString(<<"x", "&", "y", "=", "1", "0", "0", "%">>) >>,
                         << <<"ids">>, QArray(elems) >>,
                         << <<"skip">>, Absent >>,
                         << <<"page">>, QNumber(7) >> >>]
         : elems \in SeqsUpTo(QueryElements, MaxArrayLen) }

BodyEntries ==
  { <<"origin", JStr("31.73.06")>>,
    <<"weight", JNum(2000)>>,
    <<"items", JArr(<<JNum(1), JObj(<< <<"fragile", JTrue>>, <<"note", JNull>> >>),
                      JArr(<<>>)>>)>>,
    <<"big", JBigInt(1)>> }

Bodies ==
  { Undefined, JNull }
  \cup { JObj(kids) : kids \in { e \in SeqsUpTo(BodyEntries, MaxBodyKeys) :
                                   \A i, j \in 1..Len(e) : i # j => e[i][1] # e[j][1] } }

DescriptorAuths ==
  { Absent, [t |-> "object", client_id |-> "id", client_secret |-> "secret"] }

\* The descriptors whose requests are built: every path with every query,
\* and every body with and without a query and a descriptor-level auth.
URLDescriptors ==
  { [path |-> p, method |-> m, query |-> q, body |-> b, auth |-> Absent] :
      p \in Paths, m \in {"get", "delete"}, q \in Queries,
      b \in {Undefined, JObj(<< <<"weight", JNum(2000)>> >>)} }

BodyDescriptors ==
  { [path |-> p, method |-> m, query |-> q, body |-> b, auth |-> a] :
      p \in {<<"/", "serviceRates">>, <<"https:", "//", "other.example.com", "/", "v1">>},
      m \in {"post", "patch"},
      q \in {Absent, [t |-> "object", entries |-> << << <<"page">>, QNumber(7) >> >>]},
      b \in Bodies, a \in DescriptorAuths }

Descriptors == URLDescriptors \cup BodyDescriptors

\* The descriptors of the calls that are followed side by side.
GetDescriptor ==
  [ path |-> <<"https:", "//", "other.example.com", "/", "v1">>,
    method |-> "get",
    query |-> Absent,
    body |-> Undefined,
    auth |-> Absent ]

\* The descriptors of the calls that are followed to their end: one that
\* builds, and one for each way the build throws.
GoodDescriptor ==
  [ path |-> <<"https:", "//", "other.example.com", "/", "v1">>,
    method |-> "post",
    query |-> [t |-> "object", entries |-> << << <<"ids">>, QArray(<< <<"a">> >>) >> >>],
    body |-> JObj(<< <<"origin", JStr("31.73.06")>>, <<"weight", JNum(2000)>> >>),
    auth |-> Absent ]

CallDescriptors ==
  { GoodDescriptor,
    [GoodDescriptor EXCEPT !.path = <<"/", "serviceRates">>, !.method = "get",
                           !.body = Undefined],
    [GoodDescriptor EXCEPT !.body = JObj(<< <<"big", JBigInt(1)>> >>)],
    [GoodDescriptor EXCEPT !.query =
       [t |-> "object", entries |-> << << <<"ids">>, QArray(<< <<"1", "0", "0", "%">> >>) >> >>]] }

\* The body texts of responses.
MessageBody(code, message) ==
  <<LBrace, StrLex("code"), Colon, code, Comma, StrLex("message"), Colon, message, RBrace>>

BodyCodes == APIErrorCode \cup ObjectPrototypeKeys \cup ClientErrorCode \cup {"teapot", ""}

BodyTexts ==
  { MessageBody(StrLex(code), StrLex("not found")) : code \in BodyCodes }
  \cup
  { <<>>,
    <<WordLex("<html>")>>,
    <<LBrace, StrLex("code")>>,
    <<StrLex("unauthorized")>>,
    <<NumLex("0")>>,
    <<WordLex("null")>>,
    <<LBrack, StrLex("unauthorized"), RBrack>>,
    <<LBrace, StrLex("ok"), Colon, WordLex("true"), RBrace>>,
    <<LBrace, StrLex("message"), Colon, StrLex("no code"), RBrace>>,
    <<LBrace, StrLex("code"), Colon, StrLex("unauthorized"), RBrace>>,
    MessageBody(NumLex("404"), StrLex("numeric code")),
    MessageBody(WordLex("null"), StrLex("null code")),
    MessageBody(LBrack, StrLex("not a value")),
    MessageBody(StrLex("unauthorized"), NumLex("7")),
    MessageBody(StrLex("unauthorized"), WordLex("null")),
    MessageBody(StrLex("rate_limited"), StrLex("")),
    <<LBrace, StrLex("code"), Colon, StrLex("teapot"), Comma,
      StrLex("code"), Colon, StrLex("conflict_error"), Comma,
      StrLex("message"), Colon, StrLex("last code wins"), Comma,
      StrLex("retry"), Colon, NumLex("3"), RBrace>>,
    <<LBrace, StrLex("code"), Colon, StrLex("conflict_error"), Comma,
      StrLex("code"), Colon, StrLex("teapot"), Comma,
      StrLex("message"), Colon, StrLex("last code wins"), RBrace>> }

ResponseHeaders ==
  { NoHeaders, [k \in {"content-type", "x-request-id"} |-> "application/json"] }

\* What a transport can fulfil with: a response, whose text() reads body.
Responses ==
  [ok : BOOLEAN, status : {200, 404, 503}, headers : ResponseHeaders, body : BodyTexts]

\* The responses of the calls that are followed side by side.
PairResponses ==
  { [ok |-> TRUE, status |-> 200, headers |-> NoHeaders,
     body |-> <<LBrace, StrLex("ok"), Colon, WordLex("true"), RBrace>>],
    [ok |-> TRUE, status |-> 200, headers |-> NoHeaders, body |-> <<WordLex("<html>")>>],
    [ok |-> FALSE, status |-> 404, headers |-> NoHeaders,
     body |-> MessageBody(StrLex("object_not_found"), StrLex("not found"))],
    [ok |-> FALSE, status |-> 404, headers |-> NoHeaders,
     body |-> MessageBody(StrLex("constructor"), StrLex("not found"))],
    [ok |-> FALSE, status |-> 503, headers |-> NoHeaders, body |-> <<WordLex("<html>")>>] }

\* What a transport can reject with.
TransportErrors ==
  { NativeError("FetchError", "request failed, reason: ECONNREFUSED"),
    NativeError("AbortError", "The user aborted a request.") }

\* What response.text() can reject with.
TextErrors == { NativeError("FetchError", "Premature close") }

(***************************************************************************)
(* The state: the client's configuration, and each call's progress.       *)
(*   pc        idle, racing (awaiting the race), reading (awaiting         *)
(*             response.text()), resolved, rejected                        *)
(*   desc      the descriptor the call was issued with                     *)
(*   sent      the transport's invocations, each [url, init]               *)
(*   transport the promise the transport returned                          *)
(*   timer     the timeout timer: none, armed, fired, cleared              *)
(*   race      the promise of rejectAfterTimeout                           *)
(*   text      the promise of response.text()                              *)
(*   outcome   the promise Client.request returned                         *)
(*   log       the events of the call, in order                            *)
(***************************************************************************)
VARIABLES config, calls

vars == <<config, calls>>

NotStarted == [st |-> "none"]
Pending == [st |-> "pending"]
Fulfilled(v) == [st |-> "fulfilled", val |-> v]
Rejected(e) == [st |-> "rejected", err |-> e]

Settled(promise) == promise.st \in {"fulfilled", "rejected"}

\* A resolve that settles a promise again.
ResolveOverwrites(promise, v) == Fulfilled(v)

\* The resolve function of a promise: a settled promise stays as it is.
Resolve(promise, v) == IF promise.st = "pending" THEN Fulfilled(v) ELSE promise

\* A reject that is lost.
RejectLost(promise, e) == promise

\* The reject function of a promise.
Reject(promise, e) == IF promise.st = "pending" THEN Rejected(e) ELSE promise

\* A chain that never clears the timer.
ClearTimeoutForgotten(timer) == timer

\* clearTimeout(timeoutId)
ClearTimeout(timer) == IF timer = "armed" THEN "cleared" ELSE timer

\* The catch block of Client.request: what it throws for what it caught.
CatchRethrow(error) == IF ~isClientError(error) THEN error ELSE error

\* A classification that maps the parse failure of a success body into the
\* taxonomy.
ClassifyWrapsParseError(response, responseText) ==
  IF ~response.ok \/ ~JSONparse(responseText).ok
    THEN Rejected(CatchRethrow(buildRequestError(response, responseText)))
    ELSE Fulfilled(JSONparse(responseText).val)

\* A classification that numbers the errors of non-success responses by
\* the calls the client has rejected so far.
ClassifyNumbersErrors(response, responseText) ==
  IF ~response.ok
    THEN Rejected(UnknownHTTPResponseError(
           [ message |-> JStr("Request failed: error " \o ToString(
               Cardinality({ c \in DOMAIN calls : calls[c].outcome.st = "rejected" }))),
             headers |-> response.headers,
             status |-> response.status,
             rawBodyText |-> responseText ]))
  ELSE
    LET responseJson == JSONparse(responseText) IN
    IF responseJson.ok THEN Fulfilled(responseJson.val)
    ELSE Rejected(CatchRethrow(responseJson.error))

\* Client.request once response.text() has given responseText: the
\* settlement of the call.
Classify(response, responseText) ==
  IF ~response.ok
    THEN Rejected(CatchRethrow(buildRequestError(response, responseText)))
  ELSE
    LET responseJson == JSONparse(responseText) IN
    IF responseJson.ok THEN Fulfilled(responseJson.val)
    ELSE Rejected(CatchRethrow(responseJson.error))

AllCalls == {1, 2}

IdleCall ==
  [ pc |-> "idle", desc |-> Absent, sent |-> <<>>, transport |-> NotStarted,
    timer |-> "none", race |-> NotStarted, text |-> NotStarted,
    outcome |-> NotStarted, log |-> <<>> ]

InitWith(options) ==
  /\ config \in { Client(o) : o \in options }
  /\ calls = [c \in AllCalls |-> IdleCall]

\* A request whose headers are the client's auth object itself, written to
\* in place, and not a copy of it.
RequestWritesAuth(c, d) ==
  /\ calls[c].pc = "idle"
  /\ LET r == BuildRequest(config, d) IN
     /\ calls' = [calls EXCEPT ![c] =
          IF r.ok
            THEN [@ EXCEPT !.pc = "racing",
                           !.desc = d,
                           !.sent = Append(@, [url |-> r.url, init |-> r.init]),
                           !.transport = Pending,
                           !.timer = "armed",
                           !.race = Pending,
                           !.outcome = Pending,
                           !.log = @ \o <<"fetch", "setTimeout">>]
            ELSE [@ EXCEPT !.pc = "rejected",
                           !.desc = d,
                           !.outcome = Rejected(r.error),
                           !.log = Append(@, "throw")]]
     /\ config' = IF r.ok THEN [config EXCEPT !.auth = [t |-> "object", h |-> r.init.headers]]
                  ELSE config

\* client.request(d): the request is built and, unless the build throws,
\* the transport is invoked and the timer started.
Request(c, d) ==
  /\ calls[c].pc = "idle"
  /\ LET r == BuildRequest(config, d) IN
     calls' = [calls EXCEPT ![c] =
       IF r.ok
         THEN [@ EXCEPT !.pc = "racing",
                        !.desc = d,
                        !.sent = Append(@, [url |-> r.url, init |-> r.init]),
                        !.transport = Pending,
                        !.timer = "armed",
                        !.race = Pending,
                        !.outcome = Pending,
                        !.log = @ \o <<"fetch", "setTimeout">>]
         ELSE [@ EXCEPT !.pc = "rejected",
                        !.desc = d,
                        !.outcome = Rejected(r.error),
                        !.log = Append(@, "throw")]]
  /\ UNCHANGED config

\* The transport's promise fulfils: promise.then(resolve) and the chain's
\* last then, clearTimeout.
TransportFulfil(c, response) ==
  /\ calls[c].transport.st = "pending"
  /\ calls' = [calls EXCEPT ![c] =
       [@ EXCEPT !.transport = Fulfilled(response),
                 !.race = Resolve(@, response),
                 !.timer = ClearTimeout(@),
                 !.log = Append(@, "transportFulfil")]]
  /\ UNCHANGED config

\* The transport's promise rejects: .catch(reject), then clearTimeout.
TransportReject(c, error) ==
  /\ calls[c].transport.st = "pending"
  /\ calls' = [calls EXCEPT ![c] =
       [@ EXCEPT !.transport = Rejected(error),
                 !.race = Reject(@, error),
                 !.timer = ClearTimeout(@),
                 !.log = Append(@, "transportReject")]]
  /\ UNCHANGED config

\* A timer whose callback invokes the transport again, with a new timer,
\* instead of rejecting.
TimerFireRetries(c) ==
  /\ calls[c].timer = "armed"
  /\ Len(calls[c].sent) = 1
  /\ calls' = [calls EXCEPT ![c] =
       [@ EXCEPT !.sent = Append(@, @[1]),
                 !.log = @ \o <<"timeout", "fetch", "setTimeout">>]]
  /\ UNCHANGED config

\* The timer's callback: reject(new RequestTimeoutError()).
TimerFire(c) ==
  /\ calls[c].timer = "armed"
  /\ calls' = [calls EXCEPT ![c] =
       [@ EXCEPT !.timer = "fired",
                 !.race = Reject(@, RequestTimeoutError),
                 !.log = Append(@, "timeout")]]
  /\ UNCHANGED config

\* The await of the race resumes: a rejection is caught and thrown again,
\* a response has its text() called.
AwaitRace(c) ==
  /\ calls[c].pc = "racing"
  /\ Settled(calls[c].race)
  /\ calls' = [calls EXCEPT ![c] =
       IF calls[c].race.st = "rejected"
         THEN [@ EXCEPT !.pc = "rejected",
                        !.outcome = Rejected(CatchRethrow(calls[c].race.err)),
                        !.log = Append(@, "throw")]
         ELSE [@ EXCEPT !.pc = "reading",
                        !.text = Pending,
                        !.log = Append(@, "text")]]
  /\ UNCHANGED config

\* response.text() fulfils with the response's body, and the call settles.
TextFulfil(c) ==
  /\ calls[c].pc = "reading"
  /\ LET response == calls[c].race.val
         settlement == Classify(response, response.body)
     IN calls' = [calls EXCEPT ![c] =
          [@ EXCEPT !.pc = IF settlement.st = "fulfilled" THEN "resolved" ELSE "rejected",
                    !.text = Fulfilled([text |-> response.body]),
                    !.outcome = settlement,
                    !.log = Append(@, IF settlement.st = "fulfilled" THEN "return"
                                      ELSE "throw")]]
  /\ UNCHANGED config

\* response.text() rejects, and the call rejects with what it rejected with.
TextReject(c, error) ==
  /\ calls[c].pc = "reading"
  /\ calls' = [calls EXCEPT ![c] =
       [@ EXCEPT !.pc = "rejected",
                 !.text = Rejected(error),
                 !.outcome = Rejected(CatchRethrow(error)),
                 !.log = Append(@, "throw")]]
  /\ UNCHANGED config

\* One call, followed from its issue to its end.
Init == InitWith(CallOptions)

Next ==
  \/ \E d \in CallDescriptors : Request(1, d)
  \/ \E response \in Responses : TransportFulfil(1, response)
  \/ \E error \in TransportErrors : TransportReject(1, error)
  \/ TimerFire(1)
  \/ AwaitRace(1)
  \/ TextFulfil(1)
  \/ \E error \in TextErrors : TextReject(1, error)

Spec == Init /\ [][Next]_vars

\* The building of requests, for every client and descriptor.
InitBuild == InitWith(BuildOptions)

NextBuild == \E d \in Descriptors : Request(1, d)

SpecBuild == InitBuild /\ [][NextBuild]_vars

\* The event loop runs the continuation of a settled await.
SpecFair == Spec /\ WF_vars(AwaitRace(1))

\* The timer fires unless it is cleared, and the text read of a response
\* completes; the transport may never settle.  The text read fulfils and
\* rejects from the same states, so fairness of its rejection says that it
\* does not stay pending for ever: a read that never rejects has fulfilled.
SpecLive ==
  /\ Spec
  /\ WF_vars(AwaitRace(1))
  /\ WF_vars(TimerFire(1))
  /\ WF_vars(\E error \in TextErrors : TextReject(1, error))

\* Two calls on one client, their steps interleaved in every order.
PairDescriptors == { GoodDescriptor, GetDescriptor }

NextPair ==
  \E c \in AllCalls :
    \/ \E d \in PairDescriptors : Request(c, d)
    \/ \E response \in PairResponses : TransportFulfil(c, response)
    \/ \E error \in TransportErrors : TransportReject(c, error)
    \/ TimerFire(c)
    \/ AwaitRace(c)
    \/ TextFulfil(c)
    \/ \E error \in TextErrors : TextReject(c, error)

SpecPair == Init /\ [][NextPair]_vars

(***************************************************************************)
(* The claims.                                                             *)
(***************************************************************************)
Events(c) == { calls[c].log[i] : i \in 1..Len(calls[c].log) }

TimedOut(c) == calls[c].timer = "fired"

TimeoutOutcome == Rejected(RequestTimeoutError)

\* C1: once the timer has fired before the transport settled, the race is
\* rejected with RequestTimeoutError, the call's outcome is never anything
\* but that RequestTimeoutError, whatever the transport does afterwards,
\* and the call does reject with it.
C1_TimeoutWins ==
  /\ [](\A c \in AllCalls :
          TimedOut(c) =>
            /\ calls[c].race = TimeoutOutcome
            /\ calls[c].outcome \in {Pending, TimeoutOutcome}
            /\ calls[c].pc \in {"racing", "rejected"})
  /\ \A c \in AllCalls : TimedOut(c) ~> (calls[c].outcome = TimeoutOutcome)

\* The timer fired, the transport then fulfilled with a success response,
\* and the call is rejected with RequestTimeoutError.
C1_Witness ==
  /\ TimedOut(1)
  /\ calls[1].transport.st = "fulfilled"
  /\ calls[1].transport.val.ok
  /\ calls[1].log = <<"fetch", "setTimeout", "timeout", "transportFulfil", "throw">>
  /\ calls[1].outcome = TimeoutOutcome

\* The transport settled while the timer had not fired.
TransportFirst(c) ==
  \E i \in 1..Len(calls[c].log) :
    /\ calls[c].log[i] \in {"transportFulfil", "transportReject"}
    /\ \A j \in 1..(i - 1) : calls[c].log[j] # "timeout"

\* C2: when the transport settles before the timer fires, the race settles
\* as the transport did, the timer is cleared and never fires, and the call
\* does not reject with RequestTimeoutError.
C2_TransportWins ==
  \A c \in AllCalls :
    TransportFirst(c) =>
      /\ calls[c].race = calls[c].transport
      /\ calls[c].timer = "cleared"
      /\ "timeout" \notin Events(c)
      /\ calls[c].outcome # TimeoutOutcome

\* The transport rejected first, and the call rejected with its error.
C2_Witness ==
  /\ TransportFirst(1)
  /\ calls[1].transport.st = "rejected"
  /\ calls[1].timer = "cleared"
  /\ calls[1].pc = "rejected"
  /\ calls[1].outcome = calls[1].transport

\* The response whose text the call has read.
ResponseRead(c) == calls[c].race.val
HasReadText(c) == calls[c].text.st = "fulfilled"

\* The text is a JSON mapping with a string message and a code of the
\* enumerated API error codes.
IsStructuredError(text) ==
  LET p == JSONparse(text) IN
  /\ p.ok
  /\ p.val.t = "object"
  /\ GetProp(p.val, "message").t = "string"
  /\ GetProp(p.val, "code").t = "string"
  /\ GetProp(p.val, "code").s \in APIErrorCode

\* C3: a non-success response whose body is a structured error rejects the
\* call with an APIResponseError of the body's code and message and of the
\* response's status, headers and body text.
C3_StructuredErrorIsAPIResponseError ==
  \A c \in AllCalls :
    (HasReadText(c) /\ ~ResponseRead(c).ok /\ IsStructuredError(ResponseRead(c).body)) =>
      LET response == ResponseRead(c)
          payload == JSONparse(response.body).val
      IN /\ calls[c].outcome.st = "rejected"
         /\ calls[c].outcome.err.name = "APIResponseError"
         /\ InstanceOf(calls[c].outcome.err, "HTTPResponseError")
         /\ calls[c].outcome.err.code = GetProp(payload, "code").s
         /\ calls[c].outcome.err.message = GetProp(payload, "message").s
         /\ calls[c].outcome.err.status = response.status
         /\ calls[c].outcome.err.headers = response.headers
         /\ calls[c].outcome.err.body = response.body

\* The response 404 {"code":"object_not_found","message":"not found"}
\* rejected the call with that APIResponseError.
C3_Witness ==
  /\ HasReadText(1)
  /\ ~ResponseRead(1).ok
  /\ ResponseRead(1).status = 404
  /\ ResponseRead(1).body = MessageBody(StrLex("object_not_found"), StrLex("not found"))
  /\ calls[1].outcome.st = "rejected"
  /\ calls[1].outcome.err.name = "APIResponseError"
  /\ calls[1].outcome.err.code = "object_not_found"
  /\ calls[1].outcome.err.message = "not found"
  /\ calls[1].outcome.err.status = 404

\* C4: the structured-error parser matches only a JSON mapping with a
\* string message and a code of the enumerated API error codes, so every
\* APIResponseError raised carries a code of that set.
C4_OnlyEnumeratedCodes ==
  \A c \in AllCalls :
    /\ HasReadText(c) =>
         (parseAPIErrorResponseBody(ResponseRead(c).body).match
            => IsStructuredError(ResponseRead(c).body))
    /\ (calls[c].outcome.st = "rejected" /\ calls[c].outcome.err.name = "APIResponseError")
         => calls[c].outcome.err.code \in APIErrorCode

\* The UnknownHTTPResponseError of a response.
UnknownErrorOf(response) ==
  [ proto |-> <<"UnknownHTTPResponseError", "HTTPResponseError", "clientBaseError", "Error">>,
    name |-> "UnknownHTTPResponseError",
    code |-> "response_error",
    message |-> "Request failed with status: " \o ToString(response.status),
    status |-> response.status,
    headers |-> response.headers,
    body |-> response.body ]

\* C5: a non-success response whose body is empty, is no JSON or is no
\* structured error rejects the call with the UnknownHTTPResponseError of
\* the response, with the synthesized message, and never with the parse
\* error of the body.
C5_UnstructuredErrorIsUnknown ==
  \A c \in AllCalls :
    (HasReadText(c) /\ ~ResponseRead(c).ok /\ ~IsStructuredError(ResponseRead(c).body)) =>
      /\ calls[c].outcome = Rejected(UnknownErrorOf(ResponseRead(c)))
      /\ calls[c].outcome.err # JSONSyntaxError

TaxonomyNames == {"RequestTimeoutError", "UnknownHTTPResponseError", "APIResponseError"}

\* C6: a success response that won the race resolves the call with the
\* parsed body, or, when the body is no JSON, rejects it with the parse
\* error itself, which is no member of the taxonomy.
C6_SuccessResolvesOrParseError ==
  \A c \in AllCalls :
    (HasReadText(c) /\ ResponseRead(c).ok) =>
      LET response == ResponseRead(c) IN
      /\ JSONparse(response.body).ok =>
           /\ calls[c].pc = "resolved"
           /\ calls[c].outcome = Fulfilled(JSONparse(response.body).val)
      /\ ~JSONparse(response.body).ok =>
           /\ calls[c].pc = "rejected"
           /\ calls[c].outcome = Rejected(JSONSyntaxError)
           /\ ~isClientError(calls[c].outcome.err)
           /\ calls[c].outcome.err.name \notin TaxonomyNames
      /\ response.body = <<LBrace, StrLex("ok"), Colon, WordLex("true"), RBrace>> =>
           calls[c].outcome = Fulfilled(JObj(<< <<"ok", JTrue>> >>))
      /\ response.body = <<>> => calls[c].outcome.st = "rejected"

\* A success response with the body <html> rejected the call with the
\* SyntaxError of JSON.parse.
C6_Witness ==
  /\ HasReadText(1)
  /\ ResponseRead(1).ok
  /\ ResponseRead(1).body = <<WordLex("<html>")>>
  /\ calls[1].pc = "rejected"
  /\ calls[1].outcome.st = "rejected"
  /\ calls[1].outcome.err.name = "SyntaxError"

\* The body of the call's descriptor is serialized, and JSON.stringify
\* throws on it.
SerializationFails(c) ==
  /\ calls[c].desc.body.t = "object"
  /\ Len(calls[c].desc.body.kids) > 0
  /\ HasBigInt(calls[c].desc.body)

\* C7: what a call rejects with is a member of the taxonomy, or is the very
\* error that body serialization, the transport, the text read or the JSON
\* parse of a success body raised.
C7_TaxonomyOrPassThrough ==
  \A c \in AllCalls :
    calls[c].outcome.st = "rejected" =>
      LET error == calls[c].outcome.err IN
      \/ isClientError(error) /\ error.name \in TaxonomyNames
      \/ SerializationFails(c) /\ error = BigIntTypeError
      \/ calls[c].transport = Rejected(error)
      \/ calls[c].text = Rejected(error)
      \/ /\ HasReadText(c)
         /\ ResponseRead(c).ok
         /\ ~JSONparse(ResponseRead(c).body).ok
         /\ error = JSONSyntaxError

\* C8: building a request fails only when body serialization fails, and
\* then with the serialization error; every other call invokes the
\* transport.
C8_BuildFailsOnlyOnSerialization ==
  \A c \in AllCalls :
    calls[c].pc # "idle" =>
      IF SerializationFails(c)
        THEN calls[c].sent = <<>> /\ calls[c].outcome = Rejected(BigIntTypeError)
        ELSE Len(calls[c].sent) = 1 /\ calls[c].log[1] = "fetch"

\* The call's descriptor has a body that is a non-empty mapping.
HasBody(c) == calls[c].desc.body.t = "object" /\ Len(calls[c].desc.body.kids) > 0

\* The client's auth material has a content-type entry.
AuthHasContentType ==
  config.auth.t = "object" /\ "content-type" \in DOMAIN config.auth.h

\* The invocation carries the JSON text of the descriptor's body, which
\* parses back to it, and the content type application/json.
SendsJsonBody(c) ==
  LET init == calls[c].sent[1].init IN
  /\ init.body.t = "string"
  /\ JSONparse(init.body.text) = [ok |-> TRUE, val |-> calls[c].desc.body]
  /\ "content-type" \in DOMAIN init.headers
  /\ init.headers["content-type"] = "application/json"

\* C9 as stated: without a body the invocation has no body and no
\* content-type header; with one it has the JSON text and application/json;
\* a body and a content-type header come together.
C9_BodyIffContentType ==
  \A c \in AllCalls :
    Len(calls[c].sent) = 1 =>
      LET init == calls[c].sent[1].init IN
      /\ ~HasBody(c) => init.body = Absent /\ "content-type" \notin DOMAIN init.headers
      /\ HasBody(c) => SendsJsonBody(c)
      /\ init.body # Absent <=> "content-type" \in DOMAIN init.headers

\* C9 as amended: without a body the invocation has no body and the
\* request adds no content-type header: the headers have one exactly when
\* the client's auth material has, with the auth's value; with a body the
\* invocation has the JSON text and application/json; a body and a
\* content-type header come together when the auth material has none.
C9_BodyAndOwnContentType ==
  \A c \in AllCalls :
    Len(calls[c].sent) = 1 =>
      LET init == calls[c].sent[1].init IN
      /\ ~HasBody(c) =>
           /\ init.body = Absent
           /\ "content-type" \in DOMAIN init.headers <=> AuthHasContentType
           /\ AuthHasContentType =>
                init.headers["content-type"] = config.auth.h["content-type"]
      /\ HasBody(c) => SendsJsonBody(c)
      /\ ~AuthHasContentType =>
           (init.body # Absent <=> "content-type" \in DOMAIN init.headers)

\* A nested two-key body was sent as JSON text by a client whose auth
\* material has a content-type of its own.
C9_Witness ==
  /\ Len(calls[1].sent) = 1
  /\ AuthHasContentType
  /\ Len(calls[1].desc.body.kids) = 2
  /\ calls[1].desc.body.kids[1][1] = "items"
  /\ SendsJsonBody(1)

RECURSIVE DecodedElements(_, _, _)
DecodedElements(key, elems, i) ==
  IF i > Len(elems) THEN <<>>
  ELSE << <<key, decodeURIComponent(elems[i]).text>> >> \o DecodedElements(key, elems, i + 1)

\* The entries a query is to contribute: for each key in order, the
\* elements of an array, the one value of a scalar, nothing of undefined.
RECURSIVE ContributedEntries(_, _)
ContributedEntries(entries, i) ==
  IF i > Len(entries) THEN <<>>
  ELSE
    (CASE entries[i][2].t = "array" -> DecodedElements(entries[i][1], entries[i][2].elems, 1)
       [] entries[i][2].t = "undefined" -> <<>>
       [] OTHER -> << <<entries[i][1], StringOf(entries[i][2])>> >>)
    \o ContributedEntries(entries, i + 1)

QueryContribution(query) ==
  CASE query.t = "undefined" -> <<>>
    [] query.t = "URLSearchParams" -> query.list
    [] query.t = "object" -> ContributedEntries(query.entries, 1)

\* C10: the query entries of the URL the transport is invoked with are
\* those the query contributes, key by key and in array order, and no
\* others.
C10_QueryEntries ==
  \A c \in AllCalls :
    Len(calls[c].sent) = 1 =>
      SearchParamsOf(calls[c].sent[1].url) = QueryContribution(calls[c].desc.query)

\* How often the event e is in the call's log.
Count(c, e) == Cardinality({ i \in 1..Len(calls[c].log) : calls[c].log[i] = e })

\* The call has invoked the transport and has met a failure: the timeout,
\* the transport's rejection, a non-success status, or the failure of the
\* text read or of the parse of a success body.
Failed(c) ==
  \/ TimedOut(c)
  \/ TransportFirst(c) /\ calls[c].transport.st = "rejected"
  \/ calls[c].text.st = "rejected"
  \/ HasReadText(c) /\ (~ResponseRead(c).ok \/ ~JSONparse(ResponseRead(c).body).ok)

\* The failure the call has met.
FailureOf(c) ==
  IF TimedOut(c) THEN RequestTimeoutError
  ELSE IF calls[c].transport.st = "rejected" THEN calls[c].transport.err
  ELSE IF calls[c].text.st = "rejected" THEN calls[c].text.err
  ELSE IF HasReadText(c) /\ ~ResponseRead(c).ok
    THEN buildRequestError(ResponseRead(c), ResponseRead(c).body)
  ELSE JSONSyntaxError

\* C11: a call invokes the transport at most once and starts at most one
\* timer; no step invokes the transport or starts a timer for a call that
\* has invoked it already; a call that has met a failure has that failure
\* as its outcome, at once or, for a rejected race, as soon as its await
\* resumes, and nothing else ever.
C11_SingleInvocationNoRetry ==
  /\ [](\A c \in AllCalls :
          /\ Len(calls[c].sent) <= 1
          /\ Count(c, "fetch") <= 1
          /\ Count(c, "setTimeout") <= 1
          /\ Count(c, "fetch") = Len(calls[c].sent)
          /\ Failed(c) =>
               /\ calls[c].outcome \in {Pending, Rejected(FailureOf(c))}
               /\ calls[c].outcome = Pending => calls[c].pc = "racing")
  /\ [][\A c \in AllCalls :
          calls[c].sent # <<>> =>
            /\ calls'[c].sent = calls[c].sent
            /\ Count(c, "setTimeout")' = Count(c, "setTimeout")
            /\ calls'[c].timer # "armed" \/ calls[c].timer = "armed"]_vars
  /\ \A c \in AllCalls : Failed(c) ~> (calls[c].outcome = Rejected(FailureOf(c)))

\* The transport fulfilled with a response 503 whose body is no JSON; the
\* call has invoked the transport once, has started one timer, and is
\* rejected with the UnknownHTTPResponseError of that response.
C11_Witness ==
  /\ calls[1].log = <<"fetch", "setTimeout", "transportFulfil", "text", "throw">>
  /\ Len(calls[1].sent) = 1
  /\ ResponseRead(1).status = 503
  /\ ResponseRead(1).body = <<WordLex("<html>")>>
  /\ Failed(1)
  /\ calls[1].outcome = Rejected(UnknownErrorOf(ResponseRead(1)))

\* The headers of the call's transport invocation.
SentHeaders(c) == calls[c].sent[1].init.headers

\* The entries of the client's auth material.
AuthEntries == IF config.auth.t = "object" THEN config.auth.h ELSE NoHeaders

\* C12 as stated: the headers of a transport invocation have the client's
\* user-agent string as user-agent, every other entry of the auth material
\* unchanged, and nothing of the descriptor's auth.
C12_AuthOverlaidByUserAgent ==
  \A c \in AllCalls :
    Len(calls[c].sent) = 1 =>
      /\ SentHeaders(c)["user-agent"] = config.userAgent
      /\ \A k \in DOMAIN AuthEntries \ {"user-agent"} :
           k \in DOMAIN SentHeaders(c) /\ SentHeaders(c)[k] = AuthEntries[k]
      /\ DOMAIN SentHeaders(c) \cap {"client_id", "client_secret"} = {}

\* C12 as amended: the headers have the client's user-agent string as
\* user-agent; every entry of the auth material other than user-agent is
\* unchanged, but for a content-type entry when a body is sent, which is
\* application/json; the headers have no other entry, so the descriptor's
\* auth changes none.
C12_AuthThenUserAgentThenContentType ==
  \A c \in AllCalls :
    Len(calls[c].sent) = 1 =>
      /\ SentHeaders(c)["user-agent"] = config.userAgent
      /\ \A k \in DOMAIN AuthEntries \ {"user-agent"} :
           /\ k \in DOMAIN SentHeaders(c)
           /\ SentHeaders(c)[k] =
                IF k = "content-type" /\ HasBody(c) THEN "application/json"
                ELSE AuthEntries[k]
      /\ DOMAIN SentHeaders(c) =
           DOMAIN AuthEntries \cup {"user-agent"}
           \cup (IF HasBody(c) THEN {"content-type"} ELSE {})

\* A client whose auth material has a user-agent entry has sent a request
\* with a body for a descriptor with an auth of its own: the user-agent is
\* the client's, the other auth entry is unchanged.
C12_Witness ==
  /\ Len(calls[1].sent) = 1
  /\ "user-agent" \in DOMAIN AuthEntries
  /\ AuthEntries["user-agent"] = "custom"
  /\ calls[1].desc.auth.t = "object"
  /\ HasBody(1)
  /\ SentHeaders(1)["user-agent"] = "anteraja-client/0.0.1"
  /\ SentHeaders(1)["access-key-id"] = "custom"

\* The calls a and b had the same descriptor and the same transport
\* behaviour: both timed out, or neither did and the transport and the
\* text read settled alike for both.
SameBehaviour(a, b) ==
  /\ calls[a].desc = calls[b].desc
  /\ TimedOut(a) <=> TimedOut(b)
  /\ ~TimedOut(a) =>
       /\ calls[a].transport = calls[b].transport
       /\ calls[a].text = calls[b].text

\* C13: two settled calls of one client with the same descriptor and the
\* same transport behaviour have the same outcome: the same value, or the
\* same error with the same code, message, status, headers and body.
C13_SameInputsSameOutcome ==
  \A a, b \in AllCalls :
    (Settled(calls[a].outcome) /\ Settled(calls[b].outcome) /\ SameBehaviour(a, b)) =>
      calls[a].outcome = calls[b].outcome

\* Both calls were answered 503 with a body that is no JSON, the second
\* after the first had been rejected, and both are rejected with the same
\* UnknownHTTPResponseError.
C13_Witness ==
  /\ calls[1].desc = GoodDescriptor
  /\ SameBehaviour(1, 2)
  /\ HasReadText(1) /\ HasReadText(2)
  /\ ResponseRead(1).status = 503
  /\ calls[1].outcome.st = "rejected"
  /\ calls[1].outcome.err.name = "UnknownHTTPResponseError"
  /\ calls[2].outcome = calls[1].outcome

\* C14: a call whose outcome is pending is suspended at the race of the
\* transport against the timer, and at no other step.
C14_SuspendedOnlyAtRace ==
  \A c \in AllCalls :
    calls[c].outcome.st = "pending" => calls[c].pc = "racing"

\* The configurations clients are constructed with.
ConstructedConfigs == { Client(o) : o \in CallOptions }

\* The outcome of a call issued alone, for the descriptor and the transport
\* behaviour of the call c: the set of the outcomes it can have where it is.
OutcomeAlone(c) ==
  IF calls[c].pc = "idle" THEN {NotStarted}
  ELSE IF ~BuildRequest(config, calls[c].desc).ok
    THEN {Rejected(BuildRequest(config, calls[c].desc).error)}
  ELSE IF Failed(c)
    THEN IF calls[c].pc = "racing" THEN {Pending} ELSE {Rejected(FailureOf(c))}
  ELSE IF HasReadText(c) THEN {Fulfilled(JSONparse(ResponseRead(c).body).val)}
  ELSE {Pending}

\* C15: with two calls on one client and their steps interleaved in every
\* order, the configuration is the constructed one in every state and no
\* step changes it; what a call invoked the transport with is built from
\* its own descriptor and the configuration; every step changes one call
\* and leaves the other, its timer included, as it was; and each call's
\* outcome is that of the call issued alone.
C15_ConcurrentCallsIndependent ==
  /\ [](/\ config \in ConstructedConfigs
        /\ \A c \in AllCalls :
             /\ calls[c].sent # <<>> =>
                  LET r == BuildRequest(config, calls[c].desc) IN
                  r.ok /\ calls[c].sent = <<[url |-> r.url, init |-> r.init]>>
             /\ calls[c].outcome \in OutcomeAlone(c))
  /\ [][/\ config' = config
        /\ \A c, o \in AllCalls :
             (c # o /\ calls'[c] # calls[c]) => calls'[o] = calls[o]]_vars

\* Two calls of one client were in flight together: the first, with a
\* body, timed out and is rejected; the second, without one, was answered
\* and is resolved, its own timer cleared.
C15_Witness ==
  /\ config = Client(FullOptions)
  /\ calls[1].desc = GoodDescriptor
  /\ calls[2].desc = GetDescriptor
  /\ calls[1].outcome = TimeoutOutcome
  /\ calls[1].timer = "fired"
  /\ calls[2].timer = "cleared"
  /\ calls[2].outcome = Fulfilled(JObj(<< <<"ok", JTrue>> >>))
  /\ "content-type" \notin DOMAIN SentHeaders(2)

\* C16: every error of the taxonomy that a call is rejected with passes
\* isClientError; a RequestTimeoutError has the code request_timeout and
\* passes none of isHTTPResponseError, isUnknownHTTPResponseError and
\* isAPIResponseError; an error that buildRequestError built passes
\* isHTTPResponseError and exactly that one of isUnknownHTTPResponseError
\* and isAPIResponseError that is of its class.
C16_DiscriminableByCode ==
  \A c \in AllCalls :
    (calls[c].outcome.st = "rejected" /\ calls[c].outcome.err.name \in TaxonomyNames) =>
      LET error == calls[c].outcome.err IN
      /\ isClientError(error)
      /\ error.name = "RequestTimeoutError" =>
           /\ error.code = "request_timeout"
           /\ ~isHTTPResponseError(error)
           /\ ~isUnknownHTTPResponseError(error)
           /\ ~isAPIResponseError(error)
      /\ error.name # "RequestTimeoutError" =>
           /\ error = buildRequestError(ResponseRead(c), ResponseRead(c).body)
           /\ isHTTPResponseError(error)
           /\ isUnknownHTTPResponseError(error) <=> error.name = "UnknownHTTPResponseError"
           /\ isAPIResponseError(error) <=> error.name = "APIResponseError"

\* C17: a call that has invoked the transport settles: its outcome is
\* eventually fulfilled or rejected, whatever the transport does and even
\* if it never settles; and a settled outcome never changes.
C17_SettlesOnceAndEventually ==
  /\ \A c \in AllCalls : (calls[c].sent # <<>>) ~> Settled(calls[c].outcome)
  /\ [][\A c \in AllCalls :
          Settled(calls[c].outcome) => calls'[c].outcome = calls[c].outcome]_vars
  /\ [](\A c \in AllCalls :
          Settled(calls[c].outcome) <=> calls[c].pc \in {"resolved", "rejected"})

\* The call is rejected by the timeout while its transport has not
\* settled.
C17_Witness ==
  /\ calls[1].sent # <<>>
  /\ calls[1].transport = Pending
  /\ calls[1].timer = "fired"
  /\ calls[1].pc = "rejected"
  /\ calls[1].outcome = TimeoutOutcome

====
